---- MODULE Spec2Model ----
(***************************************************************************)
(* Recall: a digit-memory game (React page component).                     *)
(*                                                                         *)
(* Two builds of the page are modelled: the build with the best streak,    *)
(* the mistake highlighting and the maxLength input (src/unnamed/part_000) *)
(* and the packages/app build (src/packages/app/src/pages/index.tsx).      *)
(* The variable build says which one runs; it never changes.               *)
(*                                                                         *)
(* Strings are sequences of one-character strings.  Times are in ms.       *)
(* A handler reads the plain state variables (phase, level, number, input) *)
(* from the render it was created in (its closure, the record c below) and *)
(* writes through the setters to the current state (the record s below).   *)
(***************************************************************************)
EXTENDS Integers, Sequences, FiniteSets, TLC

VARIABLES
    build,            \* "web" (part_000) or "app" (packages/app index.tsx)
    phase,            \* useState<Phase>
    level,            \* useState(1)
    number,           \* useState(''): the target
    input,            \* useState(''): the user's input
    message,          \* useState(''): the outcome message
    countdown,        \* useState(0)
    lastRoundFailed,  \* useState(false)
    highStreak,       \* useState(() => localStorage ...): BestStreak
    stored,           \* localStorage under the key highStreak: <<>> when
                      \* there is no item (getItem yields null), else <<value>>
    timerRef,         \* useRef: id of the last setTimeout, 0 for null
    intervalRef,      \* useRef: id of the last setInterval, 0 for null
    timeouts,         \* the host's pending one-shot timers: [id, left]
    intervals,        \* the host's pending periodic timers: [id, left]
    elapsed           \* ms since the last startRound (observation only)

vars == <<build, phase, level, number, input, message, countdown,
          lastRoundFailed, highStreak, stored, timerRef, intervalRef,
          timeouts, intervals, elapsed>>

----------------------------------------------------------------------------
(* Bounds of the model *)

\* rounds are played up to this level
MaxLevel == 3
\* the best streak found in the store at startup is at most this
MaxStored == 2
\* a timer fires at most this many ms after it is due
MaxLate == 2000
\* the app build's input has no maxLength: text of up to this many
\* characters more than the target's length is entered
MaxExtra == 1

\* the timing of rounds is explored up to this level
MaxTimingLevel == 12

\* the values Math.random() returns, in hundredths
RandomSamples == {5, 95}
\* the characters the user types
Keys == {"0", "9"}

----------------------------------------------------------------------------
(* Program constants *)

TIME_PER_DIGIT == 650
MIN_TIME == 1200
MAX_TIME == 6000
\* the period of the countdown ticker
TICK_MS == 1000

----------------------------------------------------------------------------
(* Library functions, as the code uses them *)

Min(a, b) == IF a <= b THEN a ELSE b

Max(a, b) == IF a >= b THEN a ELSE b

\* variant: Math.floor in place of Math.ceil
CeilAsFloor(a, b) == a \div b

\* Math.ceil(a / b) for a >= 0, b > 0
Ceil(a, b) == (a + b - 1) \div b

DigitChars == <<"0", "1", "2", "3", "4", "5", "6", "7", "8", "9">>

RECURSIVE ToStr(_)
\* Number.prototype.toString of a natural number
ToStr(n) ==
    IF n < 10 THEN <<DigitChars[n + 1]>>
    ELSE ToStr(n \div 10) \o <<DigitChars[(n % 10) + 1]>>

IsDigit(ch) == \E d \in 0..9 : DigitChars[d + 1] = ch

DigitVal(ch) == CHOOSE d \in 0..9 : DigitChars[d + 1] = ch

NaN == "NaN"

RECURSIVE ParseDigits(_, _)
ParseDigits(str, acc) ==
    IF str = <<>> \/ ~IsDigit(Head(str)) THEN acc
    ELSE ParseDigits(Tail(str), acc * 10 + DigitVal(Head(str)))

\* parseInt(str, 10) of a string without sign or leading blanks
parseInt(str) ==
    IF str = <<>> \/ ~IsDigit(Head(str)) THEN NaN ELSE ParseDigits(str, 0)

RECURSIVE Join(_)
\* Array.prototype.join('') of an array of strings
Join(parts) ==
    IF parts = <<>> THEN <<>> ELSE Head(parts) \o Join(Tail(parts))

\* all strings over the alphabet of length at most n
Strings(alphabet, n) == UNION {[1..k -> alphabet] : k \in 0..n}

----------------------------------------------------------------------------
(* The page's pure functions *)

RECURSIVE Chunks(_, _)
\* String.prototype.match(/.{1,size}/g): the string cut into groups of size
\* characters from the left, the last group possibly shorter
Chunks(str, size) ==
    IF str = <<>> THEN <<>>
    ELSE <<SubSeq(str, 1, Min(size, Len(str)))>>
             \o Chunks(SubSeq(str, Min(size, Len(str)) + 1, Len(str)), size)

RECURSIVE JoinWith(_, _)
\* Array.prototype.join(sep)
JoinWith(parts, sep) ==
    IF parts = <<>> THEN <<>>
    ELSE IF Len(parts) = 1 THEN Head(parts)
    ELSE Head(parts) \o <<sep>> \o JoinWith(Tail(parts), sep)

\* part_000: groups of size digits counted from the right, comma separated
chunkDigits(value, size) ==
    LET firstGroupLength == IF Len(value) % size # 0 THEN Len(value) % size
                            ELSE size
        first == SubSeq(value, 1, Min(firstGroupLength, Len(value)))
        rest == JoinWith(Chunks(SubSeq(value, firstGroupLength + 1, Len(value)),
                                size), ",")
    IN  IF rest # <<>> THEN first \o <<",">> \o rest ELSE first

\* index.tsx: groups of size digits counted from the left, blank separated
chunkDigitsApp(value, size) == JoinWith(Chunks(value, size), " ")

\* variant: Math.round in place of Math.floor
RandomDigitRound(sample) == (sample * 10 + 50) \div 100

\* Math.floor(r * 10) for r = sample / 100
RandomDigit(sample) == (sample * 10) \div 100

\* rnd[i] is the i-th value Math.random() returns during the call
generateNumber(length, rnd) ==
    Join([i \in 1..length |-> ToStr(RandomDigit(rnd[i]))])

\* The highlighted output: one entry per character of input, red when the
\* character is wrapped in the red span
highlightMistakes(inp, correct) ==
    [i \in 1..Len(inp) |->
        IF i <= Len(correct) /\ inp[i] = correct[i]
        THEN [ch |-> inp[i], red |-> FALSE]
        ELSE [ch |-> inp[i], red |-> TRUE]]

\* variant: the lower clamp MIN_TIME left out
durationNoMin(nextLevel) == Min(MAX_TIME, nextLevel * TIME_PER_DIGIT)

\* variant: the upper clamp MAX_TIME left out
durationNoMax(nextLevel) == Max(MIN_TIME, nextLevel * TIME_PER_DIGIT)

\* the duration of the show phase in startRound
duration(nextLevel) == Min(MAX_TIME, Max(MIN_TIME, nextLevel * TIME_PER_DIGIT))

----------------------------------------------------------------------------
(* Messages *)

EmptyMessage == [kind |-> "empty", number |-> <<>>, highlighted |-> <<>>]

CorrectMessage == [kind |-> "correct", number |-> <<>>, highlighted |-> <<>>]

WrongMessage(num, hl) == [kind |-> "wrong", number |-> num, highlighted |-> hl]

----------------------------------------------------------------------------
(* The state as one record, for the handlers *)

Cur ==
    [build |-> build, phase |-> phase, level |-> level, number |-> number,
     input |-> input, message |-> message, countdown |-> countdown,
     lastRoundFailed |-> lastRoundFailed, highStreak |-> highStreak,
     stored |-> stored, timerRef |-> timerRef, intervalRef |-> intervalRef,
     timeouts |-> timeouts, intervals |-> intervals, elapsed |-> elapsed]

Commit(s) ==
    /\ build' = s.build
    /\ phase' = s.phase
    /\ level' = s.level
    /\ number' = s.number
    /\ input' = s.input
    /\ message' = s.message
    /\ countdown' = s.countdown
    /\ lastRoundFailed' = s.lastRoundFailed
    /\ highStreak' = s.highStreak
    /\ stored' = s.stored
    /\ timerRef' = s.timerRef
    /\ intervalRef' = s.intervalRef
    /\ timeouts' = s.timeouts
    /\ intervals' = s.intervals
    /\ elapsed' = s.elapsed

----------------------------------------------------------------------------
(* Timers of the host *)

TimerIds(s) == {t.id : t \in s.timeouts \cup s.intervals}

\* setTimeout / setInterval return an id that no pending timer has and that
\* differs from the ids the refs still hold
NewId(s) ==
    LET used == TimerIds(s) \cup {s.timerRef, s.intervalRef}
    IN  CHOOSE n \in 1..(Cardinality(used) + 1) :
            /\ n \notin used
            /\ \A m \in 1..(n - 1) : m \in used

setInterval(s, id, ms) ==
    [s EXCEPT !.intervals = @ \cup {[id |-> id, left |-> ms]}]

setTimeout(s, id, ms) ==
    [s EXCEPT !.timeouts = @ \cup {[id |-> id, left |-> ms]}]

clearTimeout(s, id) == [s EXCEPT !.timeouts = {t \in @ : t.id # id}]

clearInterval(s, id) == [s EXCEPT !.intervals = {t \in @ : t.id # id}]

----------------------------------------------------------------------------
(* The component's functions.  s is the current state, c the render the     *)
(* calling handler was created in.                                          *)

\* variant: the periodic timer is not cleared
clearTimersKeepsInterval(s) ==
    IF s.timerRef # 0 THEN clearTimeout(s, s.timerRef) ELSE s

clearTimers(s) ==
    LET s1 == IF s.timerRef # 0 THEN clearTimeout(s, s.timerRef) ELSE s
    IN  IF s1.intervalRef # 0 THEN clearInterval(s1, s1.intervalRef) ELSE s1

\* variant: setInput('') left out
startRoundKeepsInput(s, nextLevel, rnd) ==
    LET s1 == clearTimers(s)
        value == generateNumber(nextLevel, rnd)
        dur == duration(nextLevel)
        s2 == [s1 EXCEPT !.number = value,
                         !.phase = "show",
                         !.countdown = Ceil(dur, 1000),
                         !.elapsed = 0]
        iid == NewId(s2)
        s3 == setInterval([s2 EXCEPT !.intervalRef = iid], iid, TICK_MS)
        tid == NewId(s3)
    IN  setTimeout([s3 EXCEPT !.timerRef = tid], tid, dur)

startRound(s, nextLevel, rnd) ==
    LET s1 == clearTimers(s)
        value == generateNumber(nextLevel, rnd)
        dur == duration(nextLevel)
        s2 == [s1 EXCEPT !.number = value,
                         !.input = <<>>,
                         !.phase = "show",
                         !.countdown = Ceil(dur, 1000),
                         !.elapsed = 0]
        iid == NewId(s2)
        s3 == setInterval([s2 EXCEPT !.intervalRef = iid], iid, TICK_MS)
        tid == NewId(s3)
    IN  setTimeout([s3 EXCEPT !.timerRef = tid], tid, dur)

start(s, c, rnd) ==
    startRound([s EXCEPT !.level = 1, !.message = EmptyMessage], 1, rnd)

\* variant: the new streak is written to the store, not the maximum
updateHighStreakStoresNew(s, newStreak) ==
    LET high == Max(s.highStreak, newStreak)
    IN  [s EXCEPT !.stored = <<ToStr(newStreak)>>, !.highStreak = high]

\* variant: the new streak replaces the best streak without Math.max
updateHighStreakNoMax(s, newStreak) ==
    [s EXCEPT !.stored = <<ToStr(newStreak)>>, !.highStreak = newStreak]

updateHighStreak(s, newStreak) ==
    LET high == Max(s.highStreak, newStreak)
    IN  [s EXCEPT !.stored = <<ToStr(high)>>, !.highStreak = high]

\* variant: the strings compared as the numbers they denote
NumericEquals(a, b) == parseInt(a) = parseInt(b)

\* input === number: equality of strings
StrictEquals(a, b) == a = b

\* variant: lastRoundFailed is not reset
submitSuccessKeepsFailed(s, c) ==
    updateHighStreak([s EXCEPT !.message = CorrectMessage, !.level = @ + 1],
                     c.level)

\* variant: the streak counts the rounds won before this one
submitSuccessEarlierStreak(s, c) ==
    [updateHighStreak([s EXCEPT !.message = CorrectMessage, !.level = @ + 1],
                      c.level - 1)
       EXCEPT !.lastRoundFailed = FALSE]

\* part_000, the branch of submit taken when input === number
submitSuccess(s, c) ==
    [updateHighStreak([s EXCEPT !.message = CorrectMessage, !.level = @ + 1],
                      c.level)
       EXCEPT !.lastRoundFailed = FALSE]

\* variant: setLevel(1) left out
submitFailureKeepsLevel(s, c) ==
    [s EXCEPT !.message = WrongMessage(chunkDigits(c.number, 3),
                                       highlightMistakes(c.input, c.number)),
              !.lastRoundFailed = TRUE]

\* part_000, the else branch of submit
submitFailure(s, c) ==
    [s EXCEPT !.message = WrongMessage(chunkDigits(c.number, 3),
                                       highlightMistakes(c.input, c.number)),
              !.level = 1,
              !.lastRoundFailed = TRUE]

\* variant: a failed round sends the page back to the ready screen
submitFailureToReady(s, c) ==
    IF StrictEquals(c.input, c.number)
    THEN [submitSuccess(s, c) EXCEPT !.phase = "result"]
    ELSE [submitFailure(s, c) EXCEPT !.phase = "ready"]

\* part_000
submit(s, c) ==
    LET s1 == IF StrictEquals(c.input, c.number)
              THEN submitSuccess(s, c) ELSE submitFailure(s, c)
    IN  [s1 EXCEPT !.phase = "result"]

\* index.tsx
submitApp(s, c) ==
    LET s1 ==
          IF StrictEquals(c.input, c.number)
          THEN [s EXCEPT !.message = CorrectMessage, !.level = @ + 1]
          ELSE [s EXCEPT !.message =
                            WrongMessage(chunkDigitsApp(c.number, 3), <<>>),
                         !.level = 1]
    IN  [s1 EXCEPT !.phase = "result"]

submitOf(s, c) == IF s.build = "app" THEN submitApp(s, c) ELSE submit(s, c)

next(s, c, rnd) == startRound([s EXCEPT !.message = EmptyMessage], c.level, rnd)

\* the div's onKeyDown
handleKeyDown(s, c, key, rnd) ==
    IF key # "Enter" THEN s
    ELSE IF c.phase = "input" THEN s
    ELSE LET s1 == IF c.phase = "ready" THEN start(s, c, rnd) ELSE s
         IN  IF c.phase = "result" THEN next(s1, c, rnd) ELSE s1

\* the window's keydown listener of the effect with deps [phase, input]
handler(s, c, key, rnd) ==
    IF key # "Enter" THEN s
    ELSE LET s1 == IF c.phase = "ready" THEN start(s, c, rnd) ELSE s
             s2 == IF c.phase = "input" /\ c.input # <<>>
                   THEN submitOf(s1, c) ELSE s1
         IN  IF c.phase = "result" THEN next(s2, c, rnd) ELSE s2

\* the form's onSubmit
onSubmit(s, c) == IF c.input # <<>> THEN submitOf(s, c) ELSE s

\* the submit button's disabled attribute
SubmitDisabled(c) ==
    IF c.build = "app" THEN c.input = <<>> ELSE Len(c.input) # Len(c.number)

\* the longest text the input element accepts from the user
InputLimit(c) ==
    IF c.build = "app" THEN Len(c.number) + MaxExtra ELSE Len(c.number)

\* the input's onChange
onChange(s, text) == [s EXCEPT !.input = text]

\* variant: the number is cleared when it is hidden
timeoutCallbackClearsNumber(s) ==
    [clearTimers(s) EXCEPT !.countdown = 0, !.phase = "input", !.number = <<>>]

\* variant: the timers are not cleared when the show phase ends
timeoutCallbackNoClear(s) == [s EXCEPT !.countdown = 0, !.phase = "input"]

\* the callback of startRound's setTimeout
timeoutCallback(s) ==
    [clearTimers(s) EXCEPT !.countdown = 0, !.phase = "input"]

\* variant: Math.max(0, ...) left out
intervalCallbackNoFloor(s) == [s EXCEPT !.countdown = @ - 1]

\* variant: the countdown reaching 0 ends the show phase
intervalCallbackDrivesPhase(s) ==
    [s EXCEPT !.countdown = Max(0, @ - 1),
              !.phase = IF Max(0, s.countdown - 1) = 0 THEN "input" ELSE @]

\* the callback of startRound's setInterval
intervalCallback(s) == [s EXCEPT !.countdown = Max(0, @ - 1)]

----------------------------------------------------------------------------
(* Initial states *)

\* what the store holds under highStreak at startup: nothing, or a value
\* an earlier run of the page wrote
StoredAtStartup == {<<>>} \cup {<<ToStr(n)>> : n \in 0..MaxStored}

\* the initializer of the highStreak state
InitialHighStreak(st) ==
    IF st # <<>> /\ st[1] # <<>> THEN parseInt(st[1]) ELSE 0

InitCommon ==
    /\ phase = "ready"
    /\ level = 1
    /\ number = <<>>
    /\ input = <<>>
    /\ message = EmptyMessage
    /\ countdown = 0
    /\ lastRoundFailed = FALSE
    /\ timerRef = 0
    /\ intervalRef = 0
    /\ timeouts = {}
    /\ intervals = {}
    /\ elapsed = 0

Init ==
    /\ build = "web"
    /\ stored \in StoredAtStartup
    /\ highStreak = InitialHighStreak(stored)
    /\ InitCommon

InitApp ==
    /\ build = "app"
    /\ stored = <<>>
    /\ highStreak = 0
    /\ InitCommon

----------------------------------------------------------------------------
(* Actions: one per event the page receives *)

\* the values Math.random() returns during one generateNumber(n)
Rnds(n) == [1..n -> RandomSamples]

\* the length of the number a handler of the render c generates, if any
RoundLevel(c) ==
    IF c.phase = "ready" THEN 1 ELSE IF c.phase = "result" THEN c.level ELSE 0

\* a new round is started only up to MaxLevel
LevelCap == phase = "result" => level <= MaxLevel

\* click on the Start button (rendered in phase ready)
ClickStart ==
    /\ phase = "ready"
    /\ \E rnd \in Rnds(1) : Commit(start(Cur, Cur, rnd))

\* click on the Next / Start Over button (rendered in phase result)
ClickNext ==
    /\ phase = "result"
    /\ LevelCap
    /\ \E rnd \in Rnds(level) : Commit(next(Cur, Cur, rnd))

\* A keydown event.  With the focus inside the page's div the div's
\* onKeyDown runs first; then the event reaches the window's listener, which
\* is the listener of the render before the event (the effect has not run
\* again yet) or of the render after the div's handler (it has).
KeyDown ==
    /\ LevelCap
    /\ \E key \in {"Enter", "a"}, inDiv \in BOOLEAN, fresh \in BOOLEAN :
          \E rnd1 \in Rnds(IF inDiv /\ key = "Enter" THEN RoundLevel(Cur) ELSE 0) :
             LET c0 == Cur
                 s1 == IF inDiv THEN handleKeyDown(Cur, c0, key, rnd1) ELSE Cur
                 c1 == IF fresh THEN s1 ELSE c0
             IN  \E rnd2 \in Rnds(IF key = "Enter" THEN RoundLevel(c1) ELSE 0) :
                    Commit(handler(s1, c1, key, rnd2))

\* the user edits the input element (rendered in phase input)
ChangeInput ==
    /\ phase = "input"
    /\ \E text \in Strings(Keys, InputLimit(Cur)) : Commit(onChange(Cur, text))

\* the form is submitted through its enabled submit button
FormSubmit ==
    /\ phase = "input"
    /\ ~SubmitDisabled(Cur)
    /\ Commit(onSubmit(Cur, Cur))

\* the host runs a due one-shot timer
TimeoutFire ==
    \E t \in timeouts :
        /\ t.left <= 0
        /\ Commit(timeoutCallback([Cur EXCEPT !.timeouts = @ \ {t}]))

\* the host runs a due periodic timer and arms it again, TICK_MS after this
\* run or TICK_MS after the time it was due
IntervalFire ==
    \E t \in intervals, catchUp \in BOOLEAN :
        /\ t.left <= 0
        /\ LET again == [id |-> t.id,
                         left |-> IF catchUp THEN t.left + TICK_MS ELSE TICK_MS]
           IN  Commit(intervalCallback(
                        [Cur EXCEPT !.intervals = (@ \ {t}) \cup {again}]))

\* time passes until the next pending timer is due; no timer is left
\* waiting more than MaxLate ms
AdvanceTime ==
    \E u \in timeouts \cup intervals :
        /\ u.left > 0
        /\ \A t \in timeouts \cup intervals : t.left - u.left >= -MaxLate
        /\ timeouts' = {[t EXCEPT !.left = @ - u.left] : t \in timeouts}
        /\ intervals' = {[t EXCEPT !.left = @ - u.left] : t \in intervals}
        /\ elapsed' = elapsed + u.left
        /\ UNCHANGED <<build, phase, level, number, input, message, countdown,
                       lastRoundFailed, highStreak, stored, timerRef,
                       intervalRef>>

Next ==
    \/ ClickStart
    \/ ClickNext
    \/ KeyDown
    \/ ChangeInput
    \/ FormSubmit
    \/ TimeoutFire
    \/ IntervalFire
    \/ AdvanceTime

Spec == Init /\ [][Next]_vars

SpecApp == InitApp /\ [][Next]_vars

\* The host runs every due timer and time does not stop.
FairSpec == Spec /\ WF_vars(TimeoutFire) /\ WF_vars(AdvanceTime)

----------------------------------------------------------------------------
(* Properties *)

\* the step is a submit: the only way out of phase input
SubmitStep == phase = "input" /\ phase' # "input"

\* C1: while a round is shown exactly one deferred phase-transition timer
\* and exactly one periodic countdown timer are pending, and they are the
\* ones the refs name (those of the latest startRound); at no time is more
\* than one timer of either kind pending.
C1_OneTimerPairPending ==
    /\ Cardinality(timeouts) <= 1
    /\ Cardinality(intervals) <= 1
    /\ phase = "show" =>
          /\ Cardinality(timeouts) = 1
          /\ Cardinality(intervals) = 1
          /\ \A t \in timeouts : t.id = timerRef
          /\ \A t \in intervals : t.id = intervalRef

\* The first round (level 1, no round failed yet) is shown with the periodic
\* timer 3: start ran twice in direct succession, the second run cleared the
\* timers 1 and 2 of the first.
C1_Witness ==
    /\ phase = "show"
    /\ level = 1
    /\ ~lastRoundFailed
    /\ intervalRef = 3
    /\ timerRef \notin {0, 2}
    /\ elapsed = 0
    /\ Cardinality(timeouts) = 1
    /\ Cardinality(intervals) = 1

\* C2: a submit in phase input with userInput equal to target, character
\* by character, moves the phase to result, sets lastRoundFailed to false
\* and increases level by exactly 1.
C2_SubmitEqual ==
    [][(SubmitStep /\ input = number) =>
          (phase' = "result" /\ lastRoundFailed' = FALSE /\ level' = level + 1)]_vars

\* a target with a leading zero was entered and submitted successfully
C2_Witness ==
    /\ phase = "result"
    /\ Len(number) >= 2
    /\ number[1] = "0"
    /\ input = number
    /\ message = CorrectMessage
    /\ ~lastRoundFailed
    /\ level = Len(number) + 1

\* C3: a submit in phase input with userInput different from target moves
\* the phase to result, sets lastRoundFailed to true and resets level to 1.
C3_SubmitDifferent ==
    [][(SubmitStep /\ input # number) =>
          (phase' = "result" /\ lastRoundFailed' = TRUE /\ level' = 1)]_vars

\* an input that denotes the same number as the target but is another
\* string ("9" for "09") was submitted and the round failed
C3_Witness ==
    /\ phase = "result"
    /\ number = <<"0", "9">>
    /\ input = <<"9">>
    /\ message.kind = "wrong"
    /\ lastRoundFailed
    /\ level = 1

\* C4 (as claimed): submit runs only in states where the input is as long
\* as the target.
C4_SubmitOnlyAtFullLength ==
    [][SubmitStep => Len(input) = Len(number)]_vars

\* C5: on a successful submit BestStreak becomes the maximum of the old
\* BestStreak and the level before the increment, and that value is what
\* the store holds under highStreak afterwards.
C5_BestStreakOnSuccess ==
    [][(SubmitStep /\ input = number) =>
          (highStreak' = (IF highStreak >= level THEN highStreak ELSE level)
             /\ stored' = <<ToStr(highStreak')>>)]_vars

\* a round was won at a level below the best streak: the maximum is the
\* old best streak, and the store holds it
C5_Witness ==
    /\ phase = "result"
    /\ message = CorrectMessage
    /\ highStreak > level - 1
    /\ stored = <<ToStr(highStreak)>>

\* C6: BestStreak is a non-negative integer and no step decreases it.
C6_BestStreakMonotone ==
    [][(highStreak \in Nat) /\ (highStreak' \in Nat)
         /\ (highStreak' >= highStreak)]_vars

\* the best streak has grown beyond any value found at startup
C6_Witness ==
    /\ highStreak > MaxStored
    /\ phase = "result"
    /\ message = CorrectMessage

\* C7: under fairness of the timers, phase show is always eventually
\* followed by phase input, and the step from show to input is taken no
\* earlier than clamp(level * 650, 1200, 6000) ms after the round started.
C7_ShowLeadsToInput ==
    /\ (phase = "show") ~> (phase = "input")
    /\ [][(phase = "show" /\ phase' = "input") =>
            (elapsed >= Min(MAX_TIME, Max(MIN_TIME, level * TIME_PER_DIGIT)))]_vars

\* the round of level 2 reached input exactly 1300 ms after it started
C7_Witness ==
    /\ phase = "input"
    /\ level = 2
    /\ elapsed = 1300
    /\ timeouts = {}

\* C8: in phase show or input the target is a sequence of exactly level
\* characters, each a digit.
C8_TargetIsLevelDigits ==
    phase \in {"show", "input"} =>
        /\ Len(number) = level
        /\ \A i \in 1..Len(number) : IsDigit(number[i])

\* a round of level 2 or more with a leading zero is in phase input
C8_Witness ==
    /\ phase = "input"
    /\ level >= 2
    /\ Len(number) = level
    /\ number[1] = "0"

\* C9: no step taken in phase show or input changes the target; the target
\* changes only in a step from ready or result to show.
C9_TargetFixed ==
    [][(phase \in {"show", "input"} => number' = number)
         /\ (number' # number =>
                (phase \in {"ready", "result"} /\ phase' = "show"))]_vars

\* a round went through ticks, the expiry, input changes and a failed submit
\* and its target is still there
C9_Witness ==
    /\ phase = "result"
    /\ lastRoundFailed
    /\ Len(number) >= 2
    /\ Len(input) = Len(number)
    /\ input # number
    /\ elapsed > duration(Len(number))

\* C10 (as claimed): userInput is never longer than the target.
C10_InputWithinTarget == Len(input) <= Len(number)

\* C11: userInput is empty in every state of phase show, immediately after
\* every step that starts a round, and in the first state of every input
\* phase.
C11_InputClearedPerRound ==
    /\ [](phase = "show" => input = <<>>)
    /\ [][((phase' = "show" /\ phase # "show") => input' = <<>>)
            /\ ((phase = "show" /\ phase' = "input") => input' = <<>>)]_vars

\* a round after a failed one (in which something was typed) has reached
\* phase input with nothing typed yet
C11_Witness ==
    /\ phase = "input"
    /\ lastRoundFailed
    /\ input = <<>>
    /\ message = EmptyMessage

\* C12: the step that leaves phase result starts a round whose target has
\* length 1 if the previous round failed and the previous target's length
\* plus 1 if it succeeded, and the phase becomes show.
C12_NextStartsAtCurrentLevel ==
    [][(phase = "result" /\ phase' # "result") =>
          (phase' = "show"
             /\ Len(number') = (IF lastRoundFailed THEN 1 ELSE Len(number) + 1))]_vars

\* after two rounds won in a row next has started a round of 3 digits
C12_Witness ==
    /\ phase = "show"
    /\ ~lastRoundFailed
    /\ Len(number) = 3
    /\ level = 3

\* the step is a countdown tick: the periodic timer ran (it is armed again),
\* no one-shot timer was set or run and no time passed
TickStep == intervals' # intervals /\ timeouts' = timeouts /\ elapsed' = elapsed

\* the step starts a round
RoundStartStep == phase # "show" /\ phase' = "show"

\* C13: the countdown is ceil(clamp(level * 650, 1200, 6000) / 1000) when a
\* round starts, a tick takes exactly 1 off it unless it is 0 already (then
\* it stays 0), it is never negative whatever the order of the ticks and
\* the phase-transition timer, and it is 0 in phase input.
C13_Countdown ==
    /\ [](countdown >= 0 /\ (phase = "input" => countdown = 0))
    /\ [][(RoundStartStep =>
             countdown' =
               (Min(MAX_TIME, Max(MIN_TIME, level' * TIME_PER_DIGIT)) + 999) \div 1000)
          /\ (TickStep =>
                countdown' = (IF countdown > 0 THEN countdown - 1 ELSE 0))]_vars

\* the phase-transition timer of a round of level 1 is late: the ticks at
\* 1000 and 2000 ms brought the countdown from 2 to 0 and the tick at
\* 3000 ms has run with the countdown at 0
C13_Witness ==
    /\ phase = "show"
    /\ level = 1
    /\ countdown = 0
    /\ elapsed = 3000
    /\ \A t \in intervals : t.left > 0

----------------------------------------------------------------------------
(* The timing of rounds of every level up to MaxTimingLevel.  A session    *)
(* that has won the rounds of the levels below L stands at level L: in     *)
(* phase ready for L = 1, in phase result for L > 1.  Rounds are started    *)
(* from there, with Math.random() returning its least sample, and their    *)
(* timers run.                                                              *)

\* the number generateNumber(n) yields when every draw is the least sample
LeastNumber(n) ==
    generateNumber(n, [i \in 1..n |-> CHOOSE r \in RandomSamples :
                                        \A q \in RandomSamples : r <= q])

\* the ids <<intervalRef, timerRef>> hold after n rounds, each started once
RefsAfter(n) ==
    IF n % 3 = 1 THEN <<1, 2>> ELSE IF n % 3 = 2 THEN <<3, 1>> ELSE <<2, 3>>

InitTiming ==
    /\ build = "web"
    /\ \E L \in 1..MaxTimingLevel :
         /\ level = L
         /\ phase = (IF L = 1 THEN "ready" ELSE "result")
         /\ number = (IF L = 1 THEN <<>> ELSE LeastNumber(L - 1))
         /\ input = number
         /\ message = (IF L = 1 THEN EmptyMessage ELSE CorrectMessage)
         /\ highStreak = L - 1
         /\ stored = (IF L = 1 THEN <<>> ELSE <<ToStr(L - 1)>>)
         /\ intervalRef = (IF L = 1 THEN 0 ELSE RefsAfter(L - 1)[1])
         /\ timerRef = (IF L = 1 THEN 0 ELSE RefsAfter(L - 1)[2])
         /\ elapsed = (IF L = 1 THEN 0 ELSE duration(L - 1))
    /\ countdown = 0
    /\ lastRoundFailed = FALSE
    /\ timeouts = {}
    /\ intervals = {}

\* click on the Next button, whatever the level
ClickNextTiming ==
    /\ phase = "result"
    /\ Commit(next(Cur, Cur, [i \in 1..level |->
                                 CHOOSE r \in RandomSamples :
                                    \A q \in RandomSamples : r <= q]))

NextTiming ==
    \/ ClickStart
    \/ ClickNextTiming
    \/ TimeoutFire
    \/ IntervalFire
    \/ AdvanceTime

SpecTiming == InitTiming /\ [][NextTiming]_vars

\* the time at which the pending phase-transition timer of the round shown
\* is due, in ms since the round started
ShowDuration == CHOOSE d \in {t.left + elapsed : t \in timeouts} : TRUE

\* C14: the round of level L is shown for clamp(L * 650, 1200, 6000) ms:
\* 1200 for level 1, 1300 for level 2, 6000 for level 10, always within
\* [1200, 6000], and never shorter for a higher level.
C14_Duration ==
    /\ phase = "show" =>
          /\ timeouts # {}
          /\ ShowDuration = (IF level * 650 < 1200 THEN 1200
                             ELSE IF level * 650 > 6000 THEN 6000
                             ELSE level * 650)
          /\ ShowDuration >= 1200
          /\ ShowDuration <= 6000
          /\ level = 1 => ShowDuration = 1200
          /\ level = 2 => ShowDuration = 1300
          /\ level = 10 => ShowDuration = 6000
          /\ \A L \in 1..level : duration(L) <= ShowDuration
    /\ \A L \in 1..(MaxTimingLevel - 1) : duration(L) <= duration(L + 1)

\* the round of level 10 is shown and its timer has 6000 ms to run
C14_Witness ==
    /\ phase = "show"
    /\ level = 10
    /\ elapsed = 0
    /\ timeouts = {[id |-> timerRef, left |-> 6000]}

\* C15: from the initial state, start shows a 1-digit target with the
\* countdown at 2; the phase-transition timer of that round is due 1200 ms
\* after the start and the phase becomes input then, not earlier; submitting
\* the target digit gives phase result, the success message and level 2.
C15_EndToEnd ==
    /\ []((phase = "show" /\ level = 1) =>
             (timeouts # {} /\ \A t \in timeouts : t.left + elapsed = 1200))
    /\ [][((phase = "ready" /\ phase' # "ready") =>
              (phase' = "show" /\ level' = 1 /\ Len(number') = 1
                 /\ IsDigit(number'[1]) /\ countdown' = 2))
          /\ ((phase = "show" /\ level = 1 /\ phase' # "show") =>
                (phase' = "input" /\ elapsed >= 1200))
          /\ ((SubmitStep /\ level = 1 /\ input = number) =>
                (phase' = "result" /\ message' = CorrectMessage /\ level' = 2))]_vars

\* the first round, started once, was shown for 1200 ms and won
C15_Witness ==
    /\ phase = "result"
    /\ message = CorrectMessage
    /\ level = 2
    /\ Len(number) = 1
    /\ input = number
    /\ elapsed = 1200
    /\ intervalRef = 1
    /\ timerRef = 2
    /\ highStreak = 1
    /\ ~lastRoundFailed

\* position i of the comparison: userInput and target differ there (a
\* position only one of them has counts as a difference)
DiffersAt(i) == i > Len(input) \/ i > Len(number) \/ input[i] # number[i]

\* position i is flagged in the highlighted output of the message
FlaggedAt(i) ==
    i <= Len(message.highlighted) /\ message.highlighted[i].red

\* C16 (as claimed): after a failed submit the highlighted output flags
\* every position at which userInput and target differ and no position at
\* which they match.
C16_HighlightFlagsDifferences ==
    (phase = "result" /\ message.kind = "wrong") =>
        \A i \in 1..Max(Len(input), Len(number)) : FlaggedAt(i) <=> DiffersAt(i)

\* C17: the phase changes only from ready to show, from show to input, from
\* input to result and from result to show; it leaves show only in a step
\* in which the due phase-transition timer runs (no key, click or input
\* change does it), it never becomes ready again, and it becomes result
\* only from input, by a submit of a non-empty input that sets the message.
C17_PhaseTransitions ==
    [][(phase' # phase =>
          <<phase, phase'>> \in {<<"ready", "show">>, <<"show", "input">>,
                                 <<"input", "result">>, <<"result", "show">>})
       /\ ((phase = "show" /\ phase' # "show") =>
             (elapsed' = elapsed
                /\ \E t \in timeouts : t.left <= 0 /\ t.id = timerRef
                                        /\ t \notin timeouts'))
       /\ ((phase # "result" /\ phase' = "result") =>
             (input # <<>> /\ input' = input /\ message' # EmptyMessage))]_vars

\* the page went once around the cycle and further: a round failed, next
\* started another round, and its timer brought it to phase input
C17_Witness ==
    /\ phase = "input"
    /\ lastRoundFailed
    /\ level = 1
    /\ timeouts = {}
    /\ elapsed >= 1200

\* C18: a countdown tick changes nothing but the countdown (and the host's
\* arming of the ticker): phase, level, target, userInput, lastRoundFailed,
\* BestStreak, the message and the store stay as they are; in particular a
\* tick that brings the countdown to 0 leaves the phase show.
C18_TickIsCosmetic ==
    [][TickStep =>
          (phase = "show" /\ phase' = "show" /\ level' = level
             /\ number' = number /\ input' = input
             /\ lastRoundFailed' = lastRoundFailed /\ highStreak' = highStreak
             /\ message' = message /\ stored' = stored
             /\ timerRef' = timerRef /\ intervalRef' = intervalRef)]_vars

\* the tick at 2000 ms has brought the countdown of a round of level 1 to 0
\* while its phase-transition timer, due but not run yet, is still pending:
\* the phase is still show
C18_Witness ==
    /\ phase = "show"
    /\ level = 1
    /\ countdown = 0
    /\ elapsed = 2000
    /\ timeouts # {}
    /\ \A t \in intervals : t.left > 0

\* C19: in phase ready, input and result no timer is pending, neither the
\* deferred phase-transition timer nor the periodic countdown timer.
C19_TimersOnlyInShow ==
    phase # "show" => (timeouts = {} /\ intervals = {})

\* a round was shown and its timer ran: in phase input the refs still name
\* the round's timers and none is pending
C19_Witness ==
    /\ phase = "input"
    /\ timerRef # 0
    /\ intervalRef # 0
    /\ timeouts = {}
    /\ intervals = {}
    /\ elapsed >= 1200

\* C20: BestStreak >= level - 1 in every reachable state.
C20_BestStreakCoversRun == highStreak >= level - 1

\* a run of wins from an empty store: the best streak is exactly the
\* number of rounds won in a row
C20_Witness ==
    /\ phase = "result"
    /\ message = CorrectMessage
    /\ level >= 3
    /\ highStreak = level - 1

====
